---- MODULE Spec2Model ----
(***************************************************************************)
(* A model of demo.ts: the module-level configuration (chain, RPC URL,     *)
(* mnemonic), and the async main function, one action per resumption of    *)
(* main after an await.  The JSON-RPC node and the viem client library are *)
(* the environment: each call main awaits is answered by one of the        *)
(* outcomes that call can have.                                            *)
(***************************************************************************)
EXTENDS Integers, Sequences, FiniteSets, TLC

\* ------------------------------------------------------------------ bounds

\* Largest decimals() value the token contract reports in the model.
MaxDecimals == 6
\* Largest balanceOf() value (base units) the token contract reports.
MaxBalance == 2

\* ------------------------------------------------------- module-level data

\* process.env entries and yargs options that are absent.
Undefined == "undefined"

\* demo.ts:21   const TOKEN_SEND_AMOUNT = 0.01, used as TOKEN_SEND_AMOUNT.toString()
TOKEN_SEND_AMOUNT == "0.01"

\* demo.ts:76
FALLBACK_ADDRESS == "0xe30E59040385cfa09e5C61241C20f0673F314C98"

\* demo.ts:29-32, the --chain choices
ChainNames == {"base", "celo"}

\* demo.ts:24-27
TOKEN_ADDRESS_BY_CHAIN(c) ==
    IF c = "celo" THEN "0xceba9300f2b948710d2653dd7b07f33a8b32118c"
                  ELSE "0x833589fcd6edb6e08f4c7c32d4f71b54bda02913"

\* demo.ts:34-37
RPC_ENV_VAR_BY_CHAIN(c) == IF c = "celo" THEN "CELO_RPC_URL" ELSE "BASE_RPC_URL"

\* The default public RPC of the chain object (viem/chains), which http()
\* uses when it is given no URL.
ChainDefaultRpcUrl(c) ==
    IF c = "celo" THEN "https://forno.celo.org" ELSE "https://mainnet.base.org"

\* JavaScript truthiness of an optional string: undefined and "" are falsy.
Falsy(s) == s = Undefined \/ s = ""

\* Values of --rpc-url, of the chain's RPC environment variable, of MNEMONIC.
CustomRpcUrls == {Undefined, "", "https://custom.example"}
EnvRpcUrls == {Undefined, "https://env.example"}
Mnemonics == {Undefined, "", "test test test junk"}

RECURSIVE Pow10(_)
Pow10(n) == IF n = 0 THEN 1 ELSE 10 * Pow10(n - 1)

\* What the node holds: the token's decimals and the account's balance, which
\* is small or covers the transfer at any decimals of the model.
DecimalsValues == 0..MaxDecimals
BalanceValues == (0..MaxBalance) \cup {Pow10(MaxDecimals)}
\* What the node reports as the account's native balance, in wei.
NativeBalanceValues == {0, 1}
TokenSymbolValue == "USDC"

\* The provider classes of the README's table of eth_createAccessList results.
Providers == {"Good", "FaultyEstimation", "NotWhitelisted", "Crashing"}

\* Transport-level and node-level failures any JSON-RPC call can end in.
RpcFailures == {"NetworkError", "RpcError"}

Reads == {"symbol", "decimals", "balanceOf"}

VARIABLES
    chainName,      \* argv.chain
    customRpcUrl,   \* argv["rpc-url"]
    envRpcUrl,      \* process.env[RPC_ENV_VAR_BY_CHAIN[chainName]]
    MNEMONIC,       \* process.env.MNEMONIC
    chainDecimals,  \* node: the token's decimals()
    chainBalance,   \* node: the token's balanceOf(accountAddress)
    provider,       \* node: how it implements eth_createAccessList
    rpcUrl,         \* the resolved URL handed to http()
    transportUrl,   \* publicClient.transport.url
    pc,             \* where main is: "start", the await it is suspended at, "done", "failed"
    error,          \* the error main threw, "none" otherwise
    failedCall,     \* the call (or check) that threw
    nativeBalance,
    readState,      \* state of each readContract promise handed to Promise.all
    readValue,      \* what each of them fulfilled with
    readOrder,      \* the order in which those promises settled
    tokenSymbol,
    tokenDecimals,
    tokenBalance,
    simArgs,        \* the arguments of the simulateContract call
    request,        \* the request simulateContract returned
    alArgs,         \* the arguments of the createAccessList call
    result,         \* what createAccessList returned
    writeArgs,      \* the arguments of the writeContract call
    txHash,
    waitArgs,       \* the arguments of the waitForTransactionReceipt call
    txReceipt,
    rpcLog,         \* the calls issued so far, in order
    inflight,       \* the calls issued and not yet settled
    txTrace         \* the states the transaction went through

vars == <<chainName, customRpcUrl, envRpcUrl, MNEMONIC, chainDecimals, chainBalance,
          provider, rpcUrl, transportUrl, pc, error, failedCall, nativeBalance,
          readState, readValue, readOrder,
          tokenSymbol, tokenDecimals, tokenBalance, simArgs, request, alArgs, result,
          writeArgs, txHash, waitArgs, txReceipt, rpcLog, inflight, txTrace>>

\* The inputs of a run and the node's state, which no step of main changes.
env == <<chainName, customRpcUrl, envRpcUrl, MNEMONIC, chainDecimals, chainBalance, provider>>

None == "none"

\* ---------------------------------------------------- module-level code

\* ResolveRpcUrl with the precedence reversed: the environment variable wins.
ResolveRpcUrl_EnvFirst(custom, fromEnv) == IF Falsy(fromEnv) THEN custom ELSE fromEnv

\* demo.ts:79-83
ResolveRpcUrl(custom, fromEnv) == IF Falsy(custom) THEN fromEnv ELSE custom

\* demo.ts:85   http(rpcUrl): the URL the transport talks to
TransportUrl(url, c) == IF Falsy(url) THEN ChainDefaultRpcUrl(c) ELSE url

\* demo.ts:88
isUsingFallback == Falsy(MNEMONIC)

\* demo.ts:89   null without a mnemonic
account == IF Falsy(MNEMONIC) THEN "null" ELSE "MnemonicAccount"

\* demo.ts:91
accountAddress == IF account = "null" THEN FALLBACK_ADDRESS ELSE "0xMnemonicAddress"

\* demo.ts:73
tokenAddress == TOKEN_ADDRESS_BY_CHAIN(chainName)

\* ------------------------------------------------------------ helpers

\* A numeric local of main that has not been assigned yet.
Unset == 0 - 1

RECURSIVE DigitsToNat(_)
DigitsToNat(ds) ==
    IF ds = <<>> THEN 0
    ELSE 10 * DigitsToNat(SubSeq(ds, 1, Len(ds) - 1)) + ds[Len(ds)]

RECURSIVE TrimTrailingZeros(_)
TrimTrailingZeros(ds) ==
    IF ds # <<>> /\ ds[Len(ds)] = 0
    THEN TrimTrailingZeros(SubSeq(ds, 1, Len(ds) - 1))
    ELSE ds

\* A decimal string as its integer part and the digits of its fraction.
DecimalOf(str) ==
    IF str = "0.01" THEN [integer |-> 0, fraction |-> <<0, 1>>]
                    ELSE [integer |-> 0, fraction |-> <<>>]

\* parseUnits without the padding of a short fraction to `decimals` digits.
parseUnits_NoPadding(str, decimals) ==
    LET v == DecimalOf(str)
        f == TrimTrailingZeros(v.fraction)
    IN  v.integer * Pow10(decimals) + DigitsToNat(f)

\* demo.ts:170   parseUnits(value, decimals): the value in base units; a fraction
\* longer than decimals is rounded half up at the last kept digit.
parseUnits(str, decimals) ==
    LET v == DecimalOf(str)
        f == TrimTrailingZeros(v.fraction)
        n == Len(f)
    IN  IF n <= decimals
        THEN v.integer * Pow10(decimals) + DigitsToNat(f) * Pow10(decimals - n)
        ELSE v.integer * Pow10(decimals) + DigitsToNat(SubSeq(f, 1, decimals))
             + (IF f[decimals + 1] >= 5 THEN 1 ELSE 0)

\* demo.ts:180-184   encodeFunctionData({abi, functionName, args})
encodeFunctionData(functionName, args) == <<functionName, args>>

\* The explicit gas limit a createAccessList call carries, if any.
GasOf(args) == IF "gas" \in DOMAIN args THEN args.gas ELSE None

\* The timeout a waitForTransactionReceipt call carries, if any.
TimeoutOf(args) == IF "timeout" \in DOMAIN args THEN args.timeout ELSE None

\* ---------------------------------------------------------- environment

\* What readContract returns for each of the three reads.
NodeRead(r) ==
    CASE r = "symbol" -> TokenSymbolValue
      [] r = "decimals" -> chainDecimals
      [] r = "balanceOf" -> chainBalance

\* The token contract's transfer, dry-run by the node: it reverts when the
\* amount exceeds the sender's balance.
NodeSimulate(amount, balance) == IF amount > balance THEN "RevertError" ELSE "ok"

\* README.md:431-437 and 77-118: eth_createAccessList per provider class, without
\* and with an explicit gas limit in the request.
ProviderAccessList(p, gas) ==
    CASE p = "Good" -> "AccessList"
      [] p = "FaultyEstimation" -> IF gas = None THEN "GasMisestimated" ELSE "AccessList"
      [] p = "NotWhitelisted" -> "MethodNotSupported"
      [] p = "Crashing" -> "HandlerCrashed"

\* The outcomes of waitForTransactionReceipt: a receipt with either status, the
\* library's timeout error, a transport failure.
ReceiptOutcomes == {"success", "reverted", "TimeoutError", "NetworkError"}

Init ==
    /\ chainName \in ChainNames
    /\ customRpcUrl \in CustomRpcUrls
    /\ envRpcUrl \in EnvRpcUrls
    /\ MNEMONIC \in Mnemonics
    /\ chainDecimals \in DecimalsValues
    /\ chainBalance \in BalanceValues
    /\ provider \in Providers
    /\ rpcUrl = None
    /\ transportUrl = None
    /\ pc = "start"
    /\ error = None
    /\ failedCall = None
    /\ nativeBalance = Unset
    /\ readState = [r \in Reads |-> "idle"]
    /\ readValue = [r \in Reads |-> IF r = "symbol" THEN None ELSE Unset]
    /\ readOrder = <<>>
    /\ tokenSymbol = None
    /\ tokenDecimals = Unset
    /\ tokenBalance = Unset
    /\ simArgs = <<>>
    /\ request = <<>>
    /\ alArgs = <<>>
    /\ result = None
    /\ writeArgs = <<>>
    /\ txHash = None
    /\ waitArgs = <<>>
    /\ txReceipt = None
    /\ rpcLog = <<>>
    /\ inflight = {}
    /\ txTrace = <<>>

\* ------------------------------------------------------------------ main

\* Throw with a catch-all around main's body that swallows the error.
Throw_Swallowed(call, err) ==
    /\ pc' = "done"
    /\ error' = None
    /\ failedCall' = call

\* main throws: the async function's promise rejects and nothing catches it.
Throw(call, err) ==
    /\ pc' = "failed"
    /\ error' = err
    /\ failedCall' = call

\* AllReadsFulfilled with the symbol read left out of the join.
AllReadsFulfilled_SkipSymbol(state) ==
    state["decimals"] = "fulfilled" /\ state["balanceOf"] = "fulfilled"

\* demo.ts:124-141   Promise.all fulfils once every promise handed to it has.
AllReadsFulfilled(state) == \A r \in Reads : state[r] = "fulfilled"

\* InsufficientTokenBalance without the exemption of read-only mode.
InsufficientTokenBalance_AnyMode(balance) == balance <= 0

\* demo.ts:146
InsufficientTokenBalance(balance) == balance <= 0 /\ ~isUsingFallback

\* demo.ts:162-172   the arguments of simulateContract, returned as `request`
SimulateArgs(decimals) ==
    [account |-> accountAddress,
     address |-> tokenAddress,
     functionName |-> "transfer",
     args |-> <<accountAddress, parseUnits(TOKEN_SEND_AMOUNT, decimals)>>]

\* demo.ts:177-186   the arguments of createAccessList
CreateAccessListArgs(req) ==
    [account |-> accountAddress,
     to |-> req.address,
     data |-> encodeFunctionData(req.functionName, req.args),
     value |-> 0]

\* NextAfterAccessList without the read-only return and the account check.
NextAfterAccessList_AlwaysSend == "send"

\* demo.ts:190-200   what follows the access list: "return" in read-only mode,
\* "throw" without an account, "send" otherwise.
NextAfterAccessList ==
    IF isUsingFallback THEN "return"
    ELSE IF account = "null" THEN "throw"
    ELSE "send"

\* WriteContractArgs with the access list createAccessList returned attached.
WriteContractArgs_WithAccessList(req) ==
    [f \in DOMAIN req \cup {"accessList"} |->
        IF f = "accessList" THEN "AccessList"
        ELSE IF f = "account" THEN account
        ELSE req[f]]

\* demo.ts:203-206   { ...request, account }
WriteContractArgs(req) == [req EXCEPT !.account = account]

\* demo.ts:209-211
WaitForReceiptArgs(hash) == [hash |-> hash]

\* demo.ts:69-99 and 101-119: the module's top level, then main up to its first
\* await: the URL is resolved, the clients are built, getBalance is issued.
Main ==
    /\ pc = "start"
    /\ rpcUrl' = ResolveRpcUrl(customRpcUrl, envRpcUrl)
    /\ transportUrl' = TransportUrl(ResolveRpcUrl(customRpcUrl, envRpcUrl), chainName)
    /\ rpcLog' = Append(rpcLog, "getBalance")
    /\ inflight' = inflight \cup {"getBalance"}
    /\ pc' = "awaitGetBalance"
    /\ UNCHANGED <<env, simArgs, error, failedCall, nativeBalance, readState, readValue, readOrder,
                   tokenSymbol, tokenDecimals, tokenBalance, request, alArgs, result,
                   writeArgs, txHash, waitArgs, txReceipt, txTrace>>

\* demo.ts:117-141: getBalance settles; on success the three reads are issued
\* together and main awaits Promise.all of them.
GetBalanceReturn ==
    /\ pc = "awaitGetBalance"
    /\ \E out \in {"ok"} \cup RpcFailures, wei \in NativeBalanceValues :
        IF out = "ok"
        THEN /\ nativeBalance' = wei
             /\ readState' = [r \in Reads |-> "pending"]
             /\ rpcLog' = rpcLog \o <<"readContract:symbol", "readContract:decimals",
                                      "readContract:balanceOf">>
             /\ inflight' = (inflight \ {"getBalance"})
                               \cup {"readContract:symbol", "readContract:decimals",
                                     "readContract:balanceOf"}
             /\ pc' = "awaitReads"
             /\ UNCHANGED <<error, failedCall>>
        ELSE /\ Throw("getBalance", out)
             /\ inflight' = inflight \ {"getBalance"}
             /\ UNCHANGED <<nativeBalance, readState, rpcLog>>
    /\ UNCHANGED <<env, simArgs, rpcUrl, transportUrl, readValue, readOrder, tokenSymbol,
                   tokenDecimals, tokenBalance, request, alArgs, result, writeArgs, txHash, waitArgs, txReceipt, txTrace>>

\* demo.ts:124-172: one of the three reads settles.  The first rejection rejects
\* Promise.all and main throws; the last fulfilment fulfils it, main binds the
\* three values by position, checks the token balance and issues simulateContract.
\* A read that settles after main has thrown changes nothing else.
ReadSettle(r) ==
    /\ readState[r] = "pending"
    /\ \E out \in {"ok"} \cup RpcFailures :
        LET state == [readState EXCEPT ![r] = IF out = "ok" THEN "fulfilled" ELSE "rejected"]
            value == [readValue EXCEPT ![r] = IF out = "ok" THEN NodeRead(r) ELSE @]
            values == <<value["symbol"], value["decimals"], value["balanceOf"]>>
        IN  /\ readState' = state
            /\ readValue' = value
            /\ readOrder' = Append(readOrder, r)
            /\ IF pc # "awaitReads"
               THEN /\ inflight' = inflight \ {"readContract:" \o r}
                    /\ UNCHANGED <<pc, error, failedCall, tokenSymbol, tokenDecimals,
                                   tokenBalance, simArgs, rpcLog, txTrace>>
               ELSE IF out # "ok"
               THEN /\ Throw("readContract:" \o r, out)
                    /\ inflight' = inflight \ {"readContract:" \o r}
                    /\ UNCHANGED <<tokenSymbol, tokenDecimals, tokenBalance, simArgs, rpcLog,
                                   txTrace>>
               ELSE IF ~AllReadsFulfilled(state)
               THEN /\ inflight' = inflight \ {"readContract:" \o r}
                    /\ UNCHANGED <<pc, error, failedCall, tokenSymbol, tokenDecimals,
                                   tokenBalance, simArgs, rpcLog, txTrace>>
               ELSE /\ tokenSymbol' = values[1]
                    /\ tokenDecimals' = values[2]
                    /\ tokenBalance' = values[3]
                    /\ IF InsufficientTokenBalance(values[3])
                       THEN /\ Throw("tokenBalanceCheck", "InsufficientTokenBalance")
                            /\ inflight' = inflight \ {"readContract:" \o r}
                            /\ UNCHANGED <<simArgs, rpcLog, txTrace>>
                       ELSE /\ simArgs' = <<SimulateArgs(values[2])>>
                            /\ rpcLog' = Append(rpcLog, "simulateContract")
                            /\ inflight' = (inflight \ {"readContract:" \o r})
                                              \cup {"simulateContract"}
                            /\ txTrace' = Append(txTrace, "Built")
                            /\ pc' = "awaitSimulate"
                            /\ UNCHANGED <<error, failedCall>>
    /\ UNCHANGED <<env, rpcUrl, transportUrl, nativeBalance, request, alArgs, result,
                   writeArgs, txHash, waitArgs, txReceipt>>

\* SimulateOk with a reverted dry run taken for a successful one.
SimulateOk_RevertIgnored(out) == out \in {"ok", "RevertError"}

\* demo.ts:162   the await returns when simulateContract fulfils, throws otherwise
SimulateOk(out) == out = "ok"

\* SimulateContractReturn with the await on createAccessList missing: main goes
\* on to writeContract while the access-list request is still in flight.
SimulateContractReturn_NoAwait ==
    /\ pc = "awaitSimulate"
    /\ \E out \in {NodeSimulate(simArgs[1].args[2], chainBalance)}
                     \cup RpcFailures :
        IF SimulateOk(out)
        THEN /\ request' = simArgs
             /\ alArgs' = <<CreateAccessListArgs(simArgs[1])>>
             /\ writeArgs' = <<WriteContractArgs(simArgs[1])>>
             /\ rpcLog' = rpcLog \o <<"createAccessList", "writeContract">>
             /\ inflight' = (inflight \ {"simulateContract"})
                               \cup {"createAccessList", "writeContract"}
             /\ txTrace' = txTrace \o <<"Simulated", "AccessListRequested", "Submitted">>
             /\ pc' = "awaitWrite"
             /\ UNCHANGED <<error, failedCall>>
        ELSE /\ Throw("simulateContract", out)
             /\ inflight' = inflight \ {"simulateContract"}
             /\ UNCHANGED <<request, alArgs, writeArgs, rpcLog, txTrace>>
    /\ UNCHANGED <<env, simArgs, rpcUrl, transportUrl, nativeBalance, readState, readValue,
                   readOrder, tokenSymbol, tokenDecimals, tokenBalance, result, txHash,
                   waitArgs, txReceipt>>

\* demo.ts:162-186: simulateContract settles; on success its request is kept and
\* createAccessList is issued for it.
SimulateContractReturn ==
    /\ pc = "awaitSimulate"
    /\ \E out \in {NodeSimulate(simArgs[1].args[2], chainBalance)}
                     \cup RpcFailures :
        IF SimulateOk(out)
        THEN /\ request' = simArgs
             /\ alArgs' = <<CreateAccessListArgs(simArgs[1])>>
             /\ rpcLog' = Append(rpcLog, "createAccessList")
             /\ inflight' = (inflight \ {"simulateContract"}) \cup {"createAccessList"}
             /\ txTrace' = txTrace \o <<"Simulated", "AccessListRequested">>
             /\ pc' = "awaitAccessList"
             /\ UNCHANGED <<error, failedCall>>
        ELSE /\ Throw("simulateContract", out)
             /\ inflight' = inflight \ {"simulateContract"}
             /\ UNCHANGED <<request, alArgs, rpcLog, txTrace>>
    /\ UNCHANGED <<env, simArgs, rpcUrl, transportUrl, nativeBalance, readState, readValue,
                   readOrder, tokenSymbol,
                   tokenDecimals, tokenBalance, result, writeArgs, txHash, waitArgs,
                   txReceipt>>

\* demo.ts:177-206: createAccessList settles.  Nothing catches its failure.  On
\* success main returns in read-only mode and issues writeContract otherwise.
CreateAccessListReturn ==
    /\ pc = "awaitAccessList"
    /\ \E out \in {ProviderAccessList(provider, GasOf(alArgs[1])), "NetworkError"} :
        /\ inflight' = (inflight \ {"createAccessList"})
                          \cup (IF out = "AccessList" /\ NextAfterAccessList = "send"
                                THEN {"writeContract"} ELSE {})
        /\ IF out # "AccessList"
           THEN /\ Throw("createAccessList", out)
                /\ UNCHANGED <<result, writeArgs, rpcLog, txTrace>>
           ELSE /\ result' = out
                /\ IF NextAfterAccessList = "return"
                   THEN /\ pc' = "done"
                        /\ UNCHANGED <<error, failedCall, writeArgs, rpcLog, txTrace>>
                   ELSE IF NextAfterAccessList = "throw"
                   THEN /\ Throw("accountCheck", "AccountRequired")
                        /\ UNCHANGED <<writeArgs, rpcLog, txTrace>>
                   ELSE /\ writeArgs' = <<WriteContractArgs(request[1])>>
                        /\ rpcLog' = Append(rpcLog, "writeContract")
                        /\ txTrace' = Append(txTrace, "Submitted")
                        /\ pc' = "awaitWrite"
                        /\ UNCHANGED <<error, failedCall>>
    /\ UNCHANGED <<env, simArgs, rpcUrl, transportUrl, nativeBalance, readState, readValue,
                   readOrder, tokenSymbol,
                   tokenDecimals, tokenBalance, request, alArgs, txHash, waitArgs,
                   txReceipt>>

\* demo.ts:203-211: writeContract settles; on success the hash is kept and
\* waitForTransactionReceipt is issued for it.
WriteContractReturn ==
    /\ pc = "awaitWrite"
    /\ \E out \in {"ok"} \cup RpcFailures :
        IF out = "ok"
        THEN /\ txHash' = "0xTxHash"
             /\ waitArgs' = <<WaitForReceiptArgs("0xTxHash")>>
             /\ rpcLog' = Append(rpcLog, "waitForTransactionReceipt")
             /\ inflight' = (inflight \ {"writeContract"}) \cup {"waitForTransactionReceipt"}
             /\ txTrace' = Append(txTrace, "Pending")
             /\ pc' = "awaitReceipt"
             /\ UNCHANGED <<error, failedCall>>
        ELSE /\ Throw("writeContract", out)
             /\ inflight' = inflight \ {"writeContract"}
             /\ UNCHANGED <<txHash, waitArgs, rpcLog, txTrace>>
    /\ UNCHANGED <<env, simArgs, rpcUrl, transportUrl, nativeBalance, readState, readValue,
                   readOrder, tokenSymbol,
                   tokenDecimals, tokenBalance, request, alArgs, result, writeArgs,
                   txReceipt>>

\* WaitForTransactionReceiptReturn with a retry: after a timeout the transaction
\* is submitted again.
WaitForTransactionReceiptReturn_Resubmit ==
    /\ pc = "awaitReceipt"
    /\ \E out \in ReceiptOutcomes :
        IF out \in {"success", "reverted"}
        THEN /\ txReceipt' = out
             /\ txTrace' = Append(txTrace, IF out = "success" THEN "Confirmed" ELSE "Failed")
             /\ inflight' = inflight \ {"waitForTransactionReceipt"}
             /\ pc' = "done"
             /\ UNCHANGED <<error, failedCall, rpcLog>>
        ELSE IF out = "TimeoutError"
        THEN /\ txTrace' = txTrace \o <<"TimedOut", "Submitted">>
             /\ rpcLog' = Append(rpcLog, "writeContract")
             /\ inflight' = (inflight \ {"waitForTransactionReceipt"}) \cup {"writeContract"}
             /\ pc' = "awaitWrite"
             /\ UNCHANGED <<error, failedCall, txReceipt>>
        ELSE /\ Throw("waitForTransactionReceipt", out)
             /\ inflight' = inflight \ {"waitForTransactionReceipt"}
             /\ UNCHANGED <<txReceipt, txTrace, rpcLog>>
    /\ UNCHANGED <<env, simArgs, rpcUrl, transportUrl, nativeBalance, readState, readValue,
                   readOrder, tokenSymbol, tokenDecimals, tokenBalance, request, alArgs,
                   result, writeArgs, txHash, waitArgs>>

\* demo.ts:209-213: waitForTransactionReceipt settles: with a receipt, which main
\* prints whatever its status, or with an error, which main throws.
WaitForTransactionReceiptReturn ==
    /\ pc = "awaitReceipt"
    /\ \E out \in ReceiptOutcomes :
        /\ inflight' = inflight \ {"waitForTransactionReceipt"}
        /\ IF out \in {"success", "reverted"}
           THEN /\ txReceipt' = out
                /\ txTrace' = Append(txTrace, IF out = "success" THEN "Confirmed" ELSE "Failed")
                /\ pc' = "done"
                /\ UNCHANGED <<error, failedCall>>
           ELSE /\ Throw("waitForTransactionReceipt", out)
                /\ txTrace' = IF out = "TimeoutError" THEN Append(txTrace, "TimedOut")
                                                      ELSE txTrace
                /\ UNCHANGED txReceipt
    /\ UNCHANGED <<env, simArgs, rpcUrl, transportUrl, nativeBalance, readState, readValue,
                   readOrder, tokenSymbol,
                   tokenDecimals, tokenBalance, request, alArgs, result, writeArgs,
                   txHash, waitArgs, rpcLog>>

Next ==
    \/ Main
    \/ GetBalanceReturn
    \/ \E r \in Reads : ReadSettle(r)
    \/ SimulateContractReturn
    \/ CreateAccessListReturn
    \/ WriteContractReturn
    \/ WaitForTransactionReceiptReturn

Spec == Init /\ [][Next]_vars

\* ------------------------------------------------------------ properties

Issued(call) == \E i \in DOMAIN rpcLog : rpcLog[i] = call

Count(call) == Cardinality({i \in DOMAIN rpcLog : rpcLog[i] = call})

Settled(call) == Issued(call) /\ call \notin inflight

\* The amount of the transfer main simulates, in base units.
Amount == parseUnits(TOKEN_SEND_AMOUNT, chainDecimals)

ReadCalls == {"readContract:symbol", "readContract:decimals", "readContract:balanceOf"}

\* The steps of the pipeline, in the order main issues them.
Stage(call) ==
    CASE call = "getBalance" -> 1
      [] call \in ReadCalls -> 2
      [] call = "simulateContract" -> 3
      [] call = "createAccessList" -> 4
      [] call = "writeContract" -> 5
      [] call = "waitForTransactionReceipt" -> 6

TerminalTxStates == {"Confirmed", "Failed", "TimedOut"}

TxTerminal == txTrace # <<>> /\ txTrace[Len(txTrace)] \in TerminalTxStates

IsPrefix(a, b) == Len(a) <= Len(b) /\ SubSeq(b, 1, Len(a)) = a

\* The paths of the transaction's state machine.
TxPaths ==
    {<<"Built", "Simulated", al, "Submitted", "Pending", t>> :
        al \in {"AccessListRequested", "AccessListSkipped"}, t \in TerminalTxStates}

\* C1: the access-list request is best-effort: once the simulation has succeeded
\* and the access-list request has ended in anything but a well-formed access
\* list, the run proceeds without one: in signing mode it submits the
\* transaction, in read-only mode it completes successfully.
C1_AccessListBestEffort ==
    (request # <<>> /\ Settled("createAccessList") /\ result # "AccessList")
        => IF isUsingFallback THEN pc = "done" /\ error = None
                              ELSE Issued("writeContract")

\* C2: the access-list request carries the caller's explicit gas limit, so that
\* against a provider whose own gas estimation is faulty it returns a well-formed
\* access list and never ends in GasMisestimated.
C2_ExplicitGasLimitSuppressesMisestimate ==
    (provider = "FaultyEstimation" /\ alArgs # <<>>)
        => /\ GasOf(alArgs[1]) # None
           /\ error # "GasMisestimated"
           /\ Settled("createAccessList") => result = "AccessList"

\* C3: a run started without a mnemonic (read-only mode, the fallback address in
\* use) never submits a transaction and never polls for a receipt, and a
\* transaction is only ever submitted with the signing account of the mnemonic.
C3_ReadOnlyNeverSubmits ==
    /\ isUsingFallback
         => /\ ~Issued("writeContract")
            /\ ~Issued("waitForTransactionReceipt")
            /\ writeArgs = <<>> /\ waitArgs = <<>>
            /\ txHash = None /\ txReceipt = None
            /\ \A i \in DOMAIN txTrace : txTrace[i] \notin {"Submitted", "Pending"}
    /\ writeArgs # <<>> => writeArgs[1].account = "MnemonicAccount"

\* C3's case: a read-only run that got its access list and returned.
C3_Witness ==
    isUsingFallback /\ accountAddress = FALLBACK_ADDRESS /\ pc = "done"
        /\ result = "AccessList"

C4_StateMachine ==
    /\ \E path \in TxPaths : IsPrefix(txTrace, path)
    /\ Count("writeContract") <= 1
    /\ Cardinality({i \in DOMAIN txTrace : txTrace[i] = "Submitted"}) <= 1
    /\ TxTerminal => pc \in {"done", "failed"} /\ inflight \cap {"writeContract",
                        "waitForTransactionReceipt", "simulateContract", "createAccessList"} = {}

\* C4: the transaction follows Built -> Simulated -> (AccessListRequested |
\* AccessListSkipped) -> Submitted -> Pending -> {Confirmed, Failed, TimedOut};
\* Submitted is entered at most once, also after a submit error, a failed
\* receipt or a timeout; Confirmed, Failed and TimedOut are terminal: once one is
\* reached the transaction's state stays and no further RPC call is issued.
C4_SubmittedOnceTerminalFinal ==
    /\ []C4_StateMachine
    /\ [][TxTerminal => (rpcLog' = rpcLog /\ txTrace' = txTrace /\ pc' = pc)]_vars
    /\ [][Issued("writeContract") => Count("writeContract")' = 1]_vars

\* C4's case: a transaction that went the whole path and timed out.
C4_Witness ==
    txTrace = <<"Built", "Simulated", "AccessListRequested", "Submitted", "Pending",
                "TimedOut">>
        /\ pc = "failed" /\ error = "TimeoutError"

\* C5: simulate, access-list request, submit and poll are strictly sequential:
\* the access-list request is issued only after the simulation has returned
\* successfully, submission only after the access-list step has finished,
\* polling only after submission has returned a hash; no two of the four are in
\* flight at the same time.
C5_StrictlySequential ==
    /\ Cardinality(inflight \cap {"simulateContract", "createAccessList", "writeContract",
                                  "waitForTransactionReceipt"}) <= 1
    /\ Issued("createAccessList") => Settled("simulateContract") /\ request # <<>>
    /\ Issued("writeContract") => Settled("createAccessList") /\ result = "AccessList"
    /\ Issued("waitForTransactionReceipt") => Settled("writeContract") /\ txHash # None
    /\ \A i, j \in DOMAIN rpcLog : (i < j) => Stage(rpcLog[i]) <= Stage(rpcLog[j])

\* C5's case: all four steps were issued, the last one is in flight.
C5_Witness ==
    /\ Issued("simulateContract") /\ Issued("createAccessList") /\ Issued("writeContract")
    /\ inflight = {"waitForTransactionReceipt"}

\* C6: the symbol, decimals and balance reads are issued together and joined:
\* the simulation is not issued before all three have fulfilled, and whatever
\* the order in which they settle, symbol, decimals and balance are bound to the
\* values of their own reads, so the simulated transfer is the same.
C6_ReadsJoinedOrderIndependent ==
    /\ Issued("simulateContract") => \A r \in Reads : readState[r] = "fulfilled"
    /\ (\A r \in Reads : readState[r] = "fulfilled")
         => /\ tokenSymbol = NodeRead("symbol")
            /\ tokenDecimals = NodeRead("decimals")
            /\ tokenBalance = NodeRead("balanceOf")
            /\ Len(readOrder) = 3
    /\ (pc = "awaitReads" /\ readOrder = <<>>) => inflight = ReadCalls
    /\ request # <<>> => request[1].args = <<accountAddress, Amount>>

\* C6's case: the reads fulfilled in the reverse of the order they were issued
\* in, and the simulation was issued.
C6_Witness ==
    /\ readOrder = <<"balanceOf", "decimals", "symbol">>
    /\ pc = "awaitSimulate"
    /\ tokenSymbol = "USDC" /\ tokenDecimals = chainDecimals /\ tokenBalance = chainBalance

\* C7: an error of the native balance query, of any of the three token reads, of
\* the simulation, of the submission or of the receipt polling is surfaced and
\* not recovered: the run ends in the error state carrying that failure, the
\* failed call is not issued again, and no later step of the pipeline is issued.
C7_ErrorsSurfacedNoRetry ==
    /\ failedCall \in {"getBalance", "simulateContract", "writeContract",
                       "waitForTransactionReceipt"} \cup ReadCalls
         => /\ pc = "failed"
            /\ error \in RpcFailures \cup {"RevertError", "TimeoutError"}
            /\ Count(failedCall) = 1
            /\ \A i \in DOMAIN rpcLog : Stage(rpcLog[i]) <= Stage(failedCall)
    /\ \A r \in Reads : readState[r] = "rejected"
         => /\ pc = "failed"
            /\ failedCall \in ReadCalls
            /\ ~Issued("simulateContract") /\ ~Issued("writeContract")
    /\ (Settled("getBalance") /\ nativeBalance = Unset)
         => pc = "failed" /\ failedCall = "getBalance" /\ Len(rpcLog) = 1
    /\ (Settled("simulateContract") /\ request = <<>>)
         => pc = "failed" /\ failedCall = "simulateContract" /\ ~Issued("createAccessList")
    /\ (Settled("writeContract") /\ txHash = None)
         => pc = "failed" /\ failedCall = "writeContract"
              /\ ~Issued("waitForTransactionReceipt")
    /\ (Settled("waitForTransactionReceipt") /\ txReceipt = None)
         => pc = "failed" /\ failedCall = "waitForTransactionReceipt"
    /\ \A c \in {"getBalance", "simulateContract", "writeContract",
                 "waitForTransactionReceipt"} \cup ReadCalls : Count(c) <= 1
    /\ pc = "failed" <=> error # None

\* C7's case: one read failed while the other two were still in flight.
C7_Witness ==
    /\ failedCall = "readContract:decimals" /\ error = "NetworkError" /\ pc = "failed"
    /\ readState["symbol"] = "pending" /\ readState["balanceOf"] = "pending"

\* C8: receipt polling is bounded by the caller: the wait main issues carries a
\* caller-supplied timeout, at whose expiry it fails with TimeoutError.
C8_PollingBoundedByCallerTimeout ==
    waitArgs # <<>> => TimeoutOf(waitArgs[1]) # None

C10_EmptyUrlFailsConstruction ==
    (pc # "start" /\ Falsy(rpcUrl))
        => pc = "failed" /\ error = "ConfigurationError" /\ rpcLog = <<>>

\* C10, amended: --rpc-url, when given, is the URL used, overriding the
\* environment variable, which is used otherwise; when neither gives a URL the
\* clients are built all the same, on the chain's default public RPC, and the
\* run goes on to issue its RPC calls.
C10_RpcUrlResolution ==
    pc # "start"
        => /\ ~Falsy(customRpcUrl) => rpcUrl = customRpcUrl /\ transportUrl = customRpcUrl
           /\ Falsy(customRpcUrl) => rpcUrl = envRpcUrl
           /\ (Falsy(customRpcUrl) /\ ~Falsy(envRpcUrl)) => transportUrl = envRpcUrl
           /\ (Falsy(customRpcUrl) /\ Falsy(envRpcUrl))
                => transportUrl = ChainDefaultRpcUrl(chainName)
           /\ rpcLog # <<>> /\ rpcLog[1] = "getBalance"
           /\ error # "ConfigurationError"

\* C10's case: neither source gives a URL and the run has issued RPC calls.
C10_Witness ==
    /\ Falsy(customRpcUrl) /\ envRpcUrl = Undefined /\ rpcUrl = Undefined
    /\ transportUrl = ChainDefaultRpcUrl(chainName)
    /\ Issued("getBalance") /\ Issued("simulateContract")

\* C11 as stated: for every decimals value d read from the token the simulated
\* call is a self-transfer of 0.01 x 10^d base units, a strictly positive amount.
C11_AmountIsHundredthForEveryDecimals ==
    simArgs # <<>>
        => /\ simArgs[1].args[1] = simArgs[1].account
           /\ simArgs[1].args[2] * 100 = Pow10(tokenDecimals)
           /\ simArgs[1].args[2] > 0

\* C11, amended: the simulated call is a transfer of the token from the account
\* address to itself; for every decimals value d >= 2 its amount is 0.01 x 10^d
\* base units (10000 when d = 6), strictly positive; for d < 2, where 0.01 is
\* below one base unit, the amount is rounded to 0.
C11_SelfTransferAmount ==
    simArgs # <<>>
        => /\ simArgs[1].functionName = "transfer"
           /\ simArgs[1].address = tokenAddress
           /\ simArgs[1].account = accountAddress
           /\ simArgs[1].args[1] = accountAddress
           /\ tokenDecimals = chainDecimals
           /\ tokenDecimals >= 2
                => /\ simArgs[1].args[2] * 100 = Pow10(tokenDecimals)
                   /\ simArgs[1].args[2] > 0
           /\ tokenDecimals < 2 => simArgs[1].args[2] = 0
           /\ tokenDecimals = 6 => simArgs[1].args[2] = 10000

\* C11's case: a token of 6 decimals, the transfer of 10000 base units simulated
\* with success.
C11_Witness ==
    /\ simArgs # <<>> /\ tokenDecimals = 6 /\ simArgs[1].args[2] = 10000
    /\ request = simArgs

\* C12: the token-balance gate applies in signing mode only: with a mnemonic set
\* and a token balance read of zero (or less) the run stops with an error before
\* any simulation, access-list request or submission; without a mnemonic a zero
\* token balance does not stop the run and the simulation is issued.
C12_BalanceGateSigningModeOnly ==
    /\ (~isUsingFallback /\ AllReadsFulfilled(readState) /\ tokenBalance <= 0)
         => /\ pc = "failed" /\ failedCall = "tokenBalanceCheck"
            /\ error = "InsufficientTokenBalance"
            /\ simArgs = <<>>
            /\ ~Issued("simulateContract") /\ ~Issued("createAccessList")
            /\ ~Issued("writeContract")
    /\ (isUsingFallback /\ AllReadsFulfilled(readState))
         => Issued("simulateContract") /\ failedCall # "tokenBalanceCheck"
    /\ (~isUsingFallback /\ AllReadsFulfilled(readState) /\ tokenBalance > 0)
         => Issued("simulateContract")
    /\ failedCall = "tokenBalanceCheck"
         => ~Falsy(MNEMONIC) /\ tokenBalance = chainBalance /\ chainBalance <= 0

\* C12's case: a read-only run that read a zero token balance and went on to
\* simulate.
C12_Witness ==
    /\ Falsy(MNEMONIC) /\ tokenBalance = 0 /\ chainBalance = 0
    /\ Issued("simulateContract") /\ simArgs # <<>>

\* C13: what is submitted does not depend on the access-list result: the
\* submitted transaction is the request the simulation returned (same token
\* address, function and arguments), with the mnemonic account as its account
\* and no access list attached; the access-list request is built from that same
\* request, with value 0 and the account address as its sender.
C13_SubmittedIsSimulatedRequest ==
    /\ writeArgs # <<>>
         => /\ request # <<>> /\ request = simArgs
            /\ DOMAIN writeArgs[1] = DOMAIN request[1]
            /\ "accessList" \notin DOMAIN writeArgs[1]
            /\ writeArgs[1].address = request[1].address
            /\ writeArgs[1].functionName = request[1].functionName
            /\ writeArgs[1].args = request[1].args
            /\ writeArgs[1].account = "MnemonicAccount"
            /\ result = "AccessList"
    /\ alArgs # <<>>
         => /\ request # <<>> /\ request = simArgs
            /\ alArgs[1].to = request[1].address
            /\ alArgs[1].data = <<request[1].functionName, request[1].args>>
            /\ alArgs[1].value = 0
            /\ alArgs[1].account = accountAddress
            /\ DOMAIN alArgs[1] = {"account", "to", "data", "value"}
    /\ request # <<>>
         => /\ request[1].address = tokenAddress
            /\ request[1].functionName = "transfer"
            /\ request[1].args = <<accountAddress, Amount>>

\* C13's case: the transaction was submitted after the access list came back.
C13_Witness ==
    /\ writeArgs # <<>> /\ Issued("writeContract") /\ result = "AccessList"
    /\ writeArgs[1].args = <<"0xMnemonicAddress", 10000>>

====
